---- MODULE Spec2Model ----
(***************************************************************************)
(* Model of the tray countdown timer in src/src/main.rs (the macOS build:  *)
(* the tray title and the Clear branch exist only there).  The state is    *)
(* what the event-loop closure captures: current_status,                   *)
(* current_time_left, the Option holding the system tray, and the          *)
(* control_flow cell the event loop hands to the closure.  One action per  *)
(* arm of the closure's match.  Durations are whole seconds: every         *)
(* Duration in the program is built with zero nanoseconds.                 *)
(***************************************************************************)
EXTENDS Integers, Sequences, FiniteSets, TLC

VARIABLES
    current_status,     \* Status: "Idle" | "Running" | "Paused"
    current_time_left,  \* Duration, in seconds
    system_tray,        \* Option<SystemTray>: <<>> is None, <<title>> is Some(tray showing title)
    control_flow,       \* *control_flow: <<"Poll">>, <<"Wait">>, <<"WaitUntil", secs>>, <<"Exit">>
    started,            \* StartCause::Init has been delivered
    panicked,           \* the closure panicked (Duration subtraction underflow)
    last_event,         \* history: the event handled by the last step
    effects,            \* history: calls made by the last handler, in program order
    releases,           \* history: number of times the tray has been dropped
    pause_mark          \* history: <<"paused", r, k>> since a click paused Running(r) with
                        \* only ticks (k of them, counted up to MaxPausedTicks) delivered
                        \* after it, <<"resumed", r, k>> once the next click is handled,
                        \* <<>> otherwise

vars == <<current_status, current_time_left, system_tray, control_flow,
          started, panicked, last_event, effects, releases, pause_mark>>

one_second == 1
zero_seconds == 0
twenty_minutes == 20 * 60

\* u64::to_string: decimal digits, most significant first.
Digit(d) ==
    CASE d = 0 -> "0" [] d = 1 -> "1" [] d = 2 -> "2" [] d = 3 -> "3"
      [] d = 4 -> "4" [] d = 5 -> "5" [] d = 6 -> "6" [] d = 7 -> "7"
      [] d = 8 -> "8" [] d = 9 -> "9"

RECURSIVE to_string(_)
to_string(number) ==
    IF number < 10 THEN Digit(number)
    ELSE to_string(number \div 10) \o Digit(number % 10)

\* Variant of format_number: the test is `<= 10`, so ten is padded too.
format_number_PadsTen(number) ==
    IF number <= 10 THEN "0" \o to_string(number) ELSE to_string(number)

format_number(number) ==
    IF number < 10 THEN "0" \o to_string(number) ELSE to_string(number)

format_timer(time_left) ==
    LET time_left_seconds == time_left
        remaining_minutes == time_left_seconds \div 60
        remaining_seconds == time_left_seconds - (remaining_minutes * 60)
    IN  format_number(remaining_minutes) \o ":" \o format_number(remaining_seconds)

control_wait_until(timer) == <<"WaitUntil", timer>>

\* The calls a handler makes, as they appear in `effects`.
SetTitle(title) == <<"set_title", title>>
SetControlFlow(cf) == <<"control_flow", cf>>
DropTray == <<"drop_tray">>

\* The state when event_loop.run is entered.  The tray is built with the
\* title format_timer(zero_seconds); the event loop's control flow is Poll
\* until the closure assigns it.
Init ==
    /\ current_status = "Idle"
    /\ current_time_left = zero_seconds
    /\ system_tray = <<format_timer(zero_seconds)>>
    /\ control_flow = <<"Poll">>
    /\ started = FALSE
    /\ panicked = FALSE
    /\ last_event = "None"
    /\ effects = <<>>
    /\ releases = 0
    /\ pause_mark = <<>>

\* The event loop delivers events to the closure once it has delivered Init,
\* and to a closure that has not panicked.  Events already queued when Exit
\* is assigned are still delivered, and a wake-up already due is delivered
\* whatever the closure has requested since: no handler is guarded by
\* control_flow.
Delivering == started /\ ~panicked

\* Variant of StartInit: Init asks for a wake-up in one second.
StartInit_WakesInOneSecond ==
    /\ ~started /\ ~panicked
    /\ started' = TRUE
    /\ last_event' = "Init"
    /\ control_flow' = control_wait_until(one_second)
    /\ effects' = <<SetControlFlow(control_wait_until(one_second))>>
    /\ UNCHANGED <<current_status, current_time_left, system_tray, panicked, releases>>

\* Event::NewEvents(StartCause::Init)
StartInit ==
    /\ ~started /\ ~panicked
    /\ started' = TRUE
    /\ last_event' = "Init"
    /\ control_flow' = <<"Wait">>
    /\ effects' = <<SetControlFlow(<<"Wait">>)>>
    /\ UNCHANGED <<current_status, current_time_left, system_tray, panicked, releases>>

\* Variant of TickDecrement: the wake-up is requested outside the `if let`.
TickDecrement_UnguardedWake ==
    /\ current_status = "Running"
    /\ current_time_left >= one_second
    /\ current_time_left' = current_time_left - one_second
    /\ control_flow' = control_wait_until(one_second)
    /\ IF system_tray # <<>>
       THEN /\ system_tray' = <<format_timer(current_time_left')>>
            /\ effects' = <<SetTitle(format_timer(current_time_left')),
                            SetControlFlow(control_wait_until(one_second))>>
       ELSE /\ effects' = <<SetControlFlow(control_wait_until(one_second))>>
            /\ UNCHANGED system_tray
    /\ UNCHANGED <<current_status, panicked>>

\* Variant of TickDecrement: two seconds are taken off per tick.
TickDecrement_TwoSeconds ==
    /\ current_status = "Running"
    /\ current_time_left >= one_second
    /\ current_time_left' = current_time_left - 2 * one_second
    /\ IF system_tray # <<>>
       THEN /\ system_tray' = <<format_timer(current_time_left')>>
            /\ control_flow' = control_wait_until(one_second)
            /\ effects' = <<SetTitle(format_timer(current_time_left')),
                            SetControlFlow(control_wait_until(one_second))>>
       ELSE /\ effects' = <<>>
            /\ UNCHANGED <<system_tray, control_flow>>
    /\ UNCHANGED <<current_status, panicked>>

\* Variant of TickDecrement: the title is formatted before the decrement.
TickDecrement_StaleTitle ==
    /\ current_status = "Running"
    /\ current_time_left >= one_second
    /\ current_time_left' = current_time_left - one_second
    /\ IF system_tray # <<>>
       THEN /\ system_tray' = <<format_timer(current_time_left)>>
            /\ control_flow' = control_wait_until(one_second)
            /\ effects' = <<SetTitle(format_timer(current_time_left)),
                            SetControlFlow(control_wait_until(one_second))>>
       ELSE /\ effects' = <<>>
            /\ UNCHANGED <<system_tray, control_flow>>
    /\ UNCHANGED <<current_status, panicked>>

\* A tick with a second or more left: decrement, then title and wake-up if
\* the tray is still there.
TickDecrement ==
    /\ current_status = "Running"
    /\ current_time_left >= one_second
    /\ current_time_left' = current_time_left - one_second
    /\ IF system_tray # <<>>
       THEN /\ system_tray' = <<format_timer(current_time_left')>>
            /\ control_flow' = control_wait_until(one_second)
            /\ effects' = <<SetTitle(format_timer(current_time_left')),
                            SetControlFlow(control_wait_until(one_second))>>
       ELSE /\ effects' = <<>>
            /\ UNCHANGED <<system_tray, control_flow>>
    /\ UNCHANGED <<current_status, panicked>>

\* A tick with nothing left: Duration's `-` panics on underflow.
TickUnderflow ==
    /\ current_status = "Running"
    /\ current_time_left < one_second
    /\ panicked' = TRUE
    /\ effects' = <<>>
    /\ UNCHANGED <<current_status, current_time_left, system_tray, control_flow>>

\* Variant of TickIgnored: the test is `!= Idle`, so a paused timer ticks.
TickIgnored_PausedTicks ==
    /\ current_status # "Running"
    /\ IF current_status = "Paused" /\ current_time_left >= one_second
       THEN current_time_left' = current_time_left - one_second
       ELSE UNCHANGED current_time_left
    /\ effects' = <<>>
    /\ UNCHANGED <<current_status, system_tray, control_flow, panicked>>

\* A tick while not Running: the `if` is not taken.
TickIgnored ==
    /\ current_status # "Running"
    /\ effects' = <<>>
    /\ UNCHANGED <<current_status, current_time_left, system_tray, control_flow, panicked>>

\* Event::NewEvents(StartCause::ResumeTimeReached { .. })
ResumeTimeReached ==
    /\ Delivering
    /\ last_event' = "ResumeTimeReached"
    /\ \/ TickDecrement
       \/ TickUnderflow
       \/ TickIgnored
    /\ UNCHANGED <<started, releases>>

\* Variant of MenuQuit: the tray is left in the Option (as_ref instead of take).
MenuQuit_NoTake ==
    /\ Delivering
    /\ last_event' = "Quit"
    /\ control_flow' = <<"Exit">>
    /\ effects' = <<SetControlFlow(<<"Exit">>)>>
    /\ UNCHANGED <<current_status, current_time_left, system_tray, started,
                   panicked, releases>>

\* menu_id == quit.id(): take the tray out of the Option (dropping it), exit.
MenuQuit ==
    /\ Delivering
    /\ last_event' = "Quit"
    /\ system_tray' = <<>>
    /\ control_flow' = <<"Exit">>
    /\ IF system_tray # <<>>
       THEN /\ releases' = releases + 1
            /\ effects' = <<DropTray, SetControlFlow(<<"Exit">>)>>
       ELSE /\ releases' = releases
            /\ effects' = <<SetControlFlow(<<"Exit">>)>>
    /\ UNCHANGED <<current_status, current_time_left, started, panicked>>

\* Variant of MenuClear: the reset is outside the `if let`, only the title
\* and the wait are under it.
MenuClear_Unguarded ==
    /\ Delivering
    /\ last_event' = "Clear"
    /\ current_status' = "Idle"
    /\ current_time_left' = zero_seconds
    /\ IF system_tray # <<>>
       THEN /\ system_tray' = <<format_timer(current_time_left')>>
            /\ control_flow' = <<"Wait">>
            /\ effects' = <<SetTitle(format_timer(current_time_left')),
                            SetControlFlow(<<"Wait">>)>>
       ELSE /\ effects' = <<>>
            /\ UNCHANGED <<system_tray, control_flow>>
    /\ UNCHANGED <<started, panicked, releases>>

\* Variant of MenuClear: the status is reset but the time left is not.
MenuClear_KeepsTime ==
    /\ Delivering
    /\ last_event' = "Clear"
    /\ IF system_tray # <<>>
       THEN /\ current_status' = "Idle"
            /\ system_tray' = <<format_timer(current_time_left)>>
            /\ control_flow' = <<"Wait">>
            /\ effects' = <<SetTitle(format_timer(current_time_left)),
                            SetControlFlow(<<"Wait">>)>>
            /\ UNCHANGED current_time_left
       ELSE /\ effects' = <<>>
            /\ UNCHANGED <<current_status, current_time_left, system_tray, control_flow>>
    /\ UNCHANGED <<started, panicked, releases>>

\* Variant of MenuClear: the wake-up is left as it was.
MenuClear_NoWait ==
    /\ Delivering
    /\ last_event' = "Clear"
    /\ IF system_tray # <<>>
       THEN /\ current_status' = "Idle"
            /\ current_time_left' = zero_seconds
            /\ system_tray' = <<format_timer(current_time_left')>>
            /\ effects' = <<SetTitle(format_timer(current_time_left'))>>
            /\ UNCHANGED control_flow
       ELSE /\ effects' = <<>>
            /\ UNCHANGED <<current_status, current_time_left, system_tray, control_flow>>
    /\ UNCHANGED <<started, panicked, releases>>

\* menu_id == menu_item.id() ("Clear")
MenuClear ==
    /\ Delivering
    /\ last_event' = "Clear"
    /\ IF system_tray # <<>>
       THEN /\ current_status' = "Idle"
            /\ current_time_left' = zero_seconds
            /\ system_tray' = <<format_timer(current_time_left')>>
            /\ control_flow' = <<"Wait">>
            /\ effects' = <<SetTitle(format_timer(current_time_left')),
                            SetControlFlow(<<"Wait">>)>>
       ELSE /\ effects' = <<>>
            /\ UNCHANGED <<current_status, current_time_left, system_tray, control_flow>>
    /\ UNCHANGED <<started, panicked, releases>>

\* A context-menu event whose id is neither item's.
MenuOther ==
    /\ Delivering
    /\ last_event' = "MenuOther"
    /\ effects' = <<>>
    /\ UNCHANGED <<current_status, current_time_left, system_tray, control_flow,
                   started, panicked, releases>>

\* LeftClick, Status::Idle arm
LeftClickIdle ==
    /\ current_status = "Idle"
    /\ current_status' = "Running"
    /\ current_time_left' = twenty_minutes
    /\ system_tray' = <<format_timer(current_time_left')>>
    /\ control_flow' = control_wait_until(one_second)
    /\ effects' = <<SetTitle(format_timer(current_time_left')),
                    SetControlFlow(control_wait_until(one_second))>>

\* Variant of LeftClickRunning: pausing leaves the one-second wake-up requested.
LeftClickRunning_StillWakes ==
    /\ current_status = "Running"
    /\ current_status' = "Paused"
    /\ control_flow' = control_wait_until(one_second)
    /\ system_tray' = <<format_timer(current_time_left)>>
    /\ effects' = <<SetControlFlow(control_wait_until(one_second)),
                    SetTitle(format_timer(current_time_left))>>
    /\ UNCHANGED current_time_left

\* LeftClick, Status::Running arm
LeftClickRunning ==
    /\ current_status = "Running"
    /\ current_status' = "Paused"
    /\ control_flow' = <<"Wait">>
    /\ system_tray' = <<format_timer(current_time_left)>>
    /\ effects' = <<SetControlFlow(<<"Wait">>),
                    SetTitle(format_timer(current_time_left))>>
    /\ UNCHANGED current_time_left

\* Variant of LeftClickPaused: resuming does not request the wake-up.
LeftClickPaused_NoWake ==
    /\ current_status = "Paused"
    /\ current_status' = "Running"
    /\ effects' = <<>>
    /\ UNCHANGED <<current_time_left, system_tray, control_flow>>

\* Variant of LeftClickPaused: resuming restarts the twenty minutes.
LeftClickPaused_Restart ==
    /\ current_status = "Paused"
    /\ current_status' = "Running"
    /\ current_time_left' = twenty_minutes
    /\ control_flow' = control_wait_until(one_second)
    /\ effects' = <<SetControlFlow(control_wait_until(one_second))>>
    /\ UNCHANGED system_tray

\* LeftClick, Status::Paused arm
LeftClickPaused ==
    /\ current_status = "Paused"
    /\ current_status' = "Running"
    /\ control_flow' = control_wait_until(one_second)
    /\ effects' = <<SetControlFlow(control_wait_until(one_second))>>
    /\ UNCHANGED <<current_time_left, system_tray>>

\* Event::TrayEvent { id: main_tray_id, event: LeftClick }
LeftClick ==
    /\ Delivering
    /\ last_event' = "LeftClick"
    /\ IF system_tray # <<>>
       THEN \/ LeftClickIdle
            \/ LeftClickRunning
            \/ LeftClickPaused
       ELSE /\ effects' = <<>>
            /\ UNCHANGED <<current_status, current_time_left, system_tray, control_flow>>
    /\ UNCHANGED <<started, panicked, releases>>

\* Variant of TrayOther: the id and the kind of click are not tested, so any
\* tray event starts an idle timer.
TrayOther_NoIdCheck ==
    /\ Delivering
    /\ \E e \in {"TrayOtherId", "TrayOtherClick"} : last_event' = e
    /\ IF system_tray # <<>> /\ current_status = "Idle"
       THEN LeftClickIdle
       ELSE /\ effects' = <<>>
            /\ UNCHANGED <<current_status, current_time_left, system_tray, control_flow>>
    /\ UNCHANGED <<started, panicked, releases>>

\* A tray event that is not a left click on the main tray: another tray's
\* id, or the `_ => {}` arm (right click, double click).
TrayOther ==
    /\ Delivering
    /\ \E e \in {"TrayOtherId", "TrayOtherClick"} : last_event' = e
    /\ effects' = <<>>
    /\ UNCHANGED <<current_status, current_time_left, system_tray, control_flow,
                   started, panicked, releases>>

\* Every other event: the `_ => ()` arm.
OtherEvent ==
    /\ Delivering
    /\ last_event' = "Other"
    /\ effects' = <<>>
    /\ UNCHANGED <<current_status, current_time_left, system_tray, control_flow,
                   started, panicked, releases>>

\* The ticks delivered to a paused timer are counted up to this number.
MaxPausedTicks == 2

\* The bookkeeping of pause_mark for the step being taken.
MarkPause ==
    pause_mark' =
        IF last_event' = "LeftClick" /\ current_status = "Running"
             /\ current_status' = "Paused"
        THEN <<"paused", current_time_left, 0>>
        ELSE IF last_event' = "LeftClick" /\ pause_mark # <<>>
                  /\ pause_mark[1] = "paused"
        THEN <<"resumed", pause_mark[2], pause_mark[3]>>
        ELSE IF last_event' = "ResumeTimeReached" /\ pause_mark # <<>>
                  /\ pause_mark[1] = "paused"
        THEN <<"paused", pause_mark[2],
               IF pause_mark[3] < MaxPausedTicks THEN pause_mark[3] + 1 ELSE pause_mark[3]>>
        ELSE <<>>

Next ==
    \/ StartInit /\ MarkPause
    \/ ResumeTimeReached /\ MarkPause
    \/ MenuQuit /\ MarkPause
    \/ MenuClear /\ MarkPause
    \/ MenuOther /\ MarkPause
    \/ LeftClick /\ MarkPause
    \/ TrayOther /\ MarkPause
    \/ OtherEvent /\ MarkPause

Spec == Init /\ [][Next]_vars

(***************************************************************************)
(* format_timer on its own: a tray title built from any duration of whole  *)
(* seconds up to MaxFormatSeconds, as SystemTrayBuilder::with_title builds *)
(* the first title from zero_seconds.                                      *)
(***************************************************************************)
MaxFormatSeconds == 6100

InitFormat ==
    /\ current_time_left \in 0..MaxFormatSeconds
    /\ system_tray = <<>>
    /\ current_status = "Idle"
    /\ control_flow = <<"Poll">>
    /\ started = FALSE
    /\ panicked = FALSE
    /\ last_event = "None"
    /\ effects = <<>>
    /\ releases = 0
    /\ pause_mark = <<>>

WithTitle ==
    /\ system_tray = <<>>
    /\ system_tray' = <<format_timer(current_time_left)>>
    /\ last_event' = "WithTitle"
    /\ UNCHANGED <<current_status, current_time_left, control_flow, started,
                   panicked, effects, releases, pause_mark>>

NextFormat == WithTitle

SpecFormat == InitFormat /\ [][NextFormat]_vars

(***************************************************************************)
(* The countdown on its own: the timer has just been started by the first  *)
(* click, and from then on the event loop delivers every wake-up the       *)
(* closure requests and nothing else.                                      *)
(***************************************************************************)
InitCountdown ==
    /\ current_status = "Running"
    /\ current_time_left = twenty_minutes
    /\ system_tray = <<format_timer(twenty_minutes)>>
    /\ control_flow = control_wait_until(one_second)
    /\ started = TRUE
    /\ panicked = FALSE
    /\ last_event = "LeftClick"
    /\ effects = <<SetTitle(format_timer(twenty_minutes)),
                   SetControlFlow(control_wait_until(one_second))>>
    /\ releases = 0
    /\ pause_mark = <<>>

\* A wake-up the closure asked for comes due.
ScheduledTick ==
    /\ control_flow[1] = "WaitUntil"
    /\ ResumeTimeReached
    /\ MarkPause

NextCountdown == ScheduledTick

SpecCountdown == InitCountdown /\ [][NextCountdown]_vars /\ WF_vars(ScheduledTick)

TypeOK ==
    /\ current_status \in {"Idle", "Running", "Paused"}
    /\ current_time_left \in 0..twenty_minutes
    /\ Len(system_tray) <= 1
    /\ started \in BOOLEAN
    /\ panicked \in BOOLEAN
    /\ releases \in 0..1

(***************************************************************************)
(* Properties                                                              *)
(***************************************************************************)

\* The titles pushed by a handler, in order.
Titles(fx) ==
    LET pushes == SelectSeq(fx, LAMBDA x : x[1] = "set_title")
    IN  [i \in 1..Len(pushes) |-> pushes[i][2]]

TrayHeld == system_tray # <<>>

\* C1: while the tray is held, a primary click takes Idle to Running with
\* 1200 seconds left, Running to Paused and Paused to Running with the time
\* left unchanged, and nothing else.
C1_PrimaryClickCycle ==
    [][(last_event' = "LeftClick" /\ TrayHeld) =>
         \/ /\ current_status = "Idle"
            /\ current_status' = "Running"
            /\ current_time_left' = 1200
         \/ /\ current_status = "Running"
            /\ current_status' = "Paused"
            /\ current_time_left' = current_time_left
         \/ /\ current_status = "Paused"
            /\ current_status' = "Running"
            /\ current_time_left' = current_time_left]_vars

\* A click has resumed a paused timer part-way through the countdown.
C1_Witness ==
    /\ last_event = "LeftClick"
    /\ TrayHeld
    /\ current_status = "Running"
    /\ current_time_left \in 1..1199
    /\ effects = <<SetControlFlow(<<"WaitUntil", 1>>)>>

\* C2: a tick that takes the time left from one second to zero moves the
\* session to Idle with nothing left (so 1200 ticks from Running(1200) end
\* in Idle).
C2_TickToZeroGoesIdle ==
    [][(last_event' = "ResumeTimeReached" /\ current_status = "Running"
          /\ current_time_left = 1) =>
         (current_status' = "Idle" /\ current_time_left' = 0)]_vars

\* C3: the time left stays within 0..1200 seconds and no tick is ever
\* applied to a Running session with nothing left (the subtraction never
\* underflows).
C3_NoUnderflow ==
    /\ current_time_left \in 0..1200
    /\ ~panicked

C5_QuitReleasesOnce ==
    /\ releases <= 1
    /\ last_event = "Quit" =>
         /\ system_tray = <<>>
         /\ control_flow = <<"Exit">>
         /\ effects # <<>>
         /\ effects[Len(effects)] = SetControlFlow(<<"Exit">>)
    /\ control_flow = <<"Exit">> => (releases = 1 /\ system_tray = <<>>)
    /\ system_tray = <<>> => (releases = 1 /\ Titles(effects) = <<>>)
    /\ \A i, j \in 1..Len(effects) :
         (effects[i] = DropTray /\ effects[j] = SetControlFlow(<<"Exit">>)) => i < j

\* A second Quit has been handled after the tray was dropped by the first.
C5_Witness ==
    /\ last_event = "Quit"
    /\ effects = <<SetControlFlow(<<"Exit">>)>>
    /\ releases = 1
    /\ system_tray = <<>>

\* C6: a tick delivered while Idle or Paused changes neither the status,
\* the time left, the tray title nor the scheduling, and makes no call.
C6_TickIgnoredUnlessRunning ==
    [][(last_event' = "ResumeTimeReached" /\ current_status # "Running") =>
         /\ UNCHANGED <<current_status, current_time_left, system_tray, control_flow>>
         /\ effects' = <<>>]_vars

\* A tick has been delivered to a timer paused part-way through.
C6_Witness ==
    /\ last_event = "ResumeTimeReached"
    /\ current_status = "Paused"
    /\ current_time_left \in 1..1199
    /\ TrayHeld
    /\ effects = <<>>

C8_IdleHasNoTimeLeft ==
    current_status = "Idle" => current_time_left = 0

\* Clear has brought a timer back to Idle.
C8_Witness ==
    /\ current_status = "Idle"
    /\ last_event = "Clear"
    /\ Titles(effects) = <<"00:00">>
    /\ current_time_left = 0

\* C9: a handler that changes the status or the time left pushes a title in
\* the same step (stated for the steps taken while the tray is held, where a
\* push is possible).
C9_ChangePushesLabel ==
    [][(TrayHeld /\ (current_status' # current_status
                       \/ current_time_left' # current_time_left)) =>
         Titles(effects') # <<>>]_vars

\* C10: every title pushed is the format of the time left after the handler,
\* and while the tray is held its title is the format of the time left.
C10_LabelNeverStale ==
    /\ TrayHeld => system_tray[1] = format_timer(current_time_left)
    /\ \A i \in 1..Len(Titles(effects)) :
         Titles(effects)[i] = format_timer(current_time_left)

\* The tray shows 19:58 after two ticks.
C10_Witness ==
    /\ TrayHeld
    /\ last_event = "ResumeTimeReached"
    /\ current_time_left = 1198
    /\ system_tray = <<"19:58">>
    /\ Titles(effects) = <<"19:58">>

\* The requests a handler made for the next wake-up, in order.
Requests(fx) ==
    LET sets == SelectSeq(fx, LAMBDA x : x[1] = "control_flow")
    IN  [i \in 1..Len(sets) |-> sets[i][2]]

\* C11 as stated: a primary click requests a wake-up in one second exactly
\* when the resulting status is Running, and an indefinite wait otherwise.
C11_ClickScheduling ==
    [][last_event' = "LeftClick" =>
         IF current_status' = "Running"
         THEN Requests(effects') = << <<"WaitUntil", 1>> >>
         ELSE Requests(effects') = << <<"Wait">> >>]_vars

\* C11 amended: a primary click handled while the tray is held requests a
\* wake-up in one second exactly when the resulting status is Running, and an
\* indefinite wait otherwise; once the tray is dropped a click requests
\* nothing.
C11_ClickSchedulingWhileTrayHeld ==
    [][last_event' = "LeftClick" =>
         IF TrayHeld
         THEN IF current_status' = "Running"
              THEN /\ Requests(effects') = << <<"WaitUntil", 1>> >>
                   /\ control_flow' = <<"WaitUntil", 1>>
              ELSE /\ Requests(effects') = << <<"Wait">> >>
                   /\ control_flow' = <<"Wait">>
         ELSE /\ Requests(effects') = <<>>
              /\ UNCHANGED control_flow]_vars

\* A click has paused a running timer and asked for an indefinite wait.
C11_Witness ==
    /\ last_event = "LeftClick"
    /\ TrayHeld
    /\ current_status = "Paused"
    /\ control_flow = <<"Wait">>
    /\ Requests(effects) = << <<"Wait">> >>

\* C12: once the tray is dropped, no late tick, click or Clear fails: no
\* error state is reachable through any number of such events.
C12_LateEventsNeverFail ==
    ~TrayHeld => ~panicked

\* C15: Init changes neither the status nor the time left, pushes no title
\* and requests an indefinite wait, so no tick is scheduled while the timer
\* has not been started.
C15_InitWaits ==
    /\ [][last_event' = "Init" =>
            /\ UNCHANGED <<current_status, current_time_left, system_tray>>
            /\ Titles(effects') = <<>>
            /\ Requests(effects') = << <<"Wait">> >>
            /\ control_flow' = <<"Wait">>]_vars
    /\ []((started /\ current_status = "Idle") => control_flow[1] # "WaitUntil")

\* Init has just been handled.
C15_Witness ==
    /\ last_event = "Init"
    /\ started
    /\ current_status = "Idle"
    /\ current_time_left = 0
    /\ control_flow = <<"Wait">>
    /\ effects = <<SetControlFlow(<<"Wait">>)>>

\* C16: an event that is none of Init, tick, primary click on the main tray,
\* Clear and Quit leaves the status, the time left, the title and the
\* scheduling as they were, and makes no call.
C16_OtherEventsIgnored ==
    [][last_event' \in {"MenuOther", "TrayOtherId", "TrayOtherClick", "Other"} =>
         /\ UNCHANGED <<current_status, current_time_left, system_tray, control_flow>>
         /\ effects' = <<>>]_vars

\* A click of another kind has been delivered to a running timer.
C16_Witness ==
    /\ last_event = "TrayOtherClick"
    /\ current_status = "Running"
    /\ TrayHeld
    /\ control_flow = <<"WaitUntil", 1>>
    /\ effects = <<>>

\* C17: once the closure has made its first decision and until Quit is
\* handled, a wake-up in one second is requested exactly when the status is
\* Running and an indefinite wait exactly when it is Idle or Paused.
C17_SchedulingMatchesStatus ==
    (started /\ releases = 0) =>
        /\ current_status = "Running" <=> control_flow = <<"WaitUntil", 1>>
        /\ current_status \in {"Idle", "Paused"} <=> control_flow = <<"Wait">>

\* A paused timer has been resumed and is scheduled again.
C17_Witness ==
    /\ started /\ releases = 0
    /\ last_event = "LeftClick"
    /\ current_status = "Running"
    /\ current_time_left \in 1..1199
    /\ control_flow = <<"WaitUntil", 1>>

\* C18: once exit is signalled, no later event replaces the decision.
C18_ExitIsSticky ==
    [][control_flow = <<"Exit">> => control_flow' = <<"Exit">>]_vars

\* A late tick has counted down after exit was signalled.
C18_Witness ==
    /\ control_flow = <<"Exit">>
    /\ last_event = "ResumeTimeReached"
    /\ current_status = "Running"
    /\ current_time_left = 1198
    /\ ~TrayHeld

C13_PauseResumeRoundTrip ==
    (pause_mark # <<>> /\ pause_mark[1] = "resumed") =>
        /\ current_status = "Running"
        /\ current_time_left = pause_mark[2]

\* A timer paused at 19:58 has been resumed after two ticks were delivered
\* to it.
C13_Witness ==
    /\ pause_mark = <<"resumed", 1198, 2>>
    /\ last_event = "LeftClick"
    /\ current_status = "Running"
    /\ current_time_left = 1198
    /\ system_tray = <<"19:58">>

\* Two digits at least, zero-padded, written with the decimal conversion of
\* the TLC module.
TwoDigits(n) == IF n < 10 THEN "0" \o ToString(n) ELSE ToString(n)

\* C14: for every s up to MaxFormatSeconds the title is the zero-padded
\* two-digit decimal of s/60, a colon and the zero-padded two-digit decimal
\* of s%60, minutes not wrapped; 0 gives 00:00, 65 gives 01:05, 1199 gives
\* 19:59 and 3600 gives 60:00.
C14_FormatIsMinutesColonSeconds ==
    system_tray # <<>> =>
        /\ system_tray[1] = TwoDigits(current_time_left \div 60) \o ":"
                              \o TwoDigits(current_time_left % 60)
        /\ current_time_left = 0 => system_tray[1] = "00:00"
        /\ current_time_left = 65 => system_tray[1] = "01:05"
        /\ current_time_left = 1199 => system_tray[1] = "19:59"
        /\ current_time_left = 3600 => system_tray[1] = "60:00"

\* A duration of 101 minutes and 5 seconds has been formatted.
C14_Witness ==
    /\ last_event = "WithTitle"
    /\ current_time_left = 6065
    /\ system_tray = <<"101:05">>

\* C20: a running timer that receives every wake-up it asks for, and nothing
\* else, comes to zero seconds left with the title 00:00, and from then on no
\* further wake-up is requested.
C20_CountdownStopsAtZero ==
    (current_time_left = 0 /\ system_tray = <<"00:00">>) =>
        control_flow[1] # "WaitUntil"

====
